---- MODULE Spec2Model ----
(***************************************************************************)
(* PyflexUI: the FlashROM service (pyflex/flashrom_service.py), the shell   *)
(* command adapter (adapters/flashrom/shell_command_adapter.py) and the    *)
(* /api/flashrom endpoint (webui/webapp.py).                                *)
(*                                                                         *)
(* Python str values are sequences of atoms (an atom is a character or a   *)
(* literal fragment of a format string); bytes values are sequences of     *)
(* byte numbers.  Python None is the one-atom text NoneT.                  *)
(***************************************************************************)
EXTENDS Integers, Sequences, FiniteSets, TLC

VARIABLES svc, disk, call, hist

vars == <<svc, disk, call, hist>>

(* ------------------------------ bounds -------------------------------- *)

\* Distinct uuid4() values the model draws file names from.
MaxUuid == 1
\* Longest standard output, in bytes, of the external tool.
MaxOutLen == 2
\* Longest standard error, in bytes, of the external tool.
MaxErrLen == 1
\* Largest verbosity handed to set_verbosity and to the adapter (the valid range is 0..3).
MaxVerbosity == 4

(* ------------------------------- text --------------------------------- *)

NoneT == <<"<None>">>

Whitespace == {" ", "\n"}

RECURSIVE lstrip(_)
lstrip(s) ==
    IF s # <<>> /\ Head(s) \in Whitespace THEN lstrip(Tail(s)) ELSE s

RECURSIVE rstrip(_)
rstrip(s) ==
    IF s # <<>> /\ s[Len(s)] \in Whitespace
        THEN rstrip(SubSeq(s, 1, Len(s) - 1))
        ELSE s

\* str.strip()
strip(s) == rstrip(lstrip(s))

\* s * n for a str s
RECURSIVE repeat(_, _)
repeat(s, n) == IF n <= 0 THEN <<>> ELSE s \o repeat(s, n - 1)

min(a, b) == IF a <= b THEN a ELSE b

Digit == [d \in 0..9 |-> CASE d = 0 -> "0" [] d = 1 -> "1" [] d = 2 -> "2"
                           [] d = 3 -> "3" [] d = 4 -> "4" [] d = 5 -> "5"
                           [] d = 6 -> "6" [] d = 7 -> "7" [] d = 8 -> "8"
                           [] OTHER -> "9"]

RECURSIVE NatToStr(_)
NatToStr(n) ==
    IF n < 10 THEN <<Digit[n]>> ELSE NatToStr(n \div 10) \o <<Digit[n % 10]>>

\* str(n) for an int n, as the f-string of _prepair_response formats it
IntToStr(n) == IF n < 0 THEN <<"-">> \o NatToStr(-n) ELSE NatToStr(n)

\* Whether t occurs in s as a contiguous run (Python's `t in s`).
Contains(s, t) ==
    \E i \in 0..(Len(s) - Len(t)) : SubSeq(s, i + 1, i + Len(t)) = t

(* ------------------------------ bytes --------------------------------- *)

\* The bytes the external tool writes: a space, the letter a, and 0xFF, a byte
\* that occurs in no UTF-8 encoding.
Bytes == {32, 97, 255}

Chr == [b \in Bytes |-> CASE b = 32 -> " " [] b = 97 -> "a" [] OTHER -> "?"]

\* bytes.decode('utf8') succeeds
DecodeOk(bs) == \A i \in 1..Len(bs) : bs[i] < 128

\* bytes.decode('utf8') on bytes it accepts
decode(bs) == [i \in 1..Len(bs) |-> Chr[bs[i]]]

BytesUpTo(n) == UNION {[1..k -> Bytes] : k \in 0..n}

(* ---------------------------- exceptions ------------------------------ *)

NoExc == [kind |-> "none", msg |-> <<>>, site |-> "none"]

\* An exception object: its class, its str() and the raise statement that made it.
Raise(kind, msg, site) == [kind |-> kind, msg |-> msg, site |-> site]

\* The classes `except exceptions.PyFlexException` catches.
IsPyFlexException(kind) == kind \in {"PyFlexException", "PyFlexInvalidParameter", "PyFlexExecutionError"}

(* ------------------------------ models -------------------------------- *)

FlashROMActionEnum == {"PROBE", "ERASE", "READ", "VERIFY", "WRITE"}

NoAction == "None"

FlashROMOpts(action, force, verbosity, programmer, input_path) ==
    [action |-> action, force |-> force, verbosity |-> verbosity,
     programmer |-> programmer, input_path |-> input_path]

NoOpts == FlashROMOpts("none", FALSE, 0, NoneT, NoneT)

FlashROMExecResult(message, path) == [message |-> message, path |-> path]

NoResult == FlashROMExecResult(<<"<no result>">>, NoneT)

\* str(member) of FlashROMActionEnum
EnumStr(a) == <<"FlashROMActionEnum.", a>>

\* pathlib: directory / name
JoinPath(dir, name) == dir \o <<"/">> \o name

\* f"{uuid()}.bin"
UuidBin(n) == <<"uuid", Digit[n], ".bin">>

UuidNames == {UuidBin(n) : n \in 1..MaxUuid}

(* ------------------------- FlashROMService ---------------------------- *)

InputDirectory == <<"webui/inputs">>

\* FlashROMService.__init__
InitService ==
    [action |-> NoAction, programmer |-> NoneT, verbosity |-> 0,
     force |-> FALSE, file_name |-> NoneT]

ActionMap ==
    [a \in {<<"probe">>, <<"erase">>, <<"write">>, <<"read">>, <<"verify">>} |->
        CASE a = <<"probe">> -> "PROBE"
          [] a = <<"erase">> -> "ERASE"
          [] a = <<"write">> -> "WRITE"
          [] a = <<"read">> -> "READ"
          [] OTHER -> "VERIFY"]

\* Mutant of set_action: a rejected value also clears the stored action.
set_action_resets(s, action) ==
    IF action \in DOMAIN ActionMap
        THEN [svc |-> [s EXCEPT !.action = ActionMap[action]], exc |-> NoExc]
        ELSE [svc |-> [s EXCEPT !.action = NoAction],
              exc |-> Raise("PyFlexInvalidParameter",
                            <<"Invalid value for ACTION.">>, "set_action")]

set_action(s, action) ==
    IF action \in DOMAIN ActionMap
        THEN [svc |-> [s EXCEPT !.action = ActionMap[action]], exc |-> NoExc]
        ELSE [svc |-> s,
              exc |-> Raise("PyFlexInvalidParameter",
                            <<"Invalid value for ACTION.">>, "set_action")]

set_programmer(s, programmer) ==
    [svc |-> [s EXCEPT !.programmer = programmer], exc |-> NoExc]

\* _file_path: stores a given name, then answers the input path (None without one)
file_path(s, file_name) ==
    LET s1 == IF file_name # NoneT THEN [s EXCEPT !.file_name = file_name] ELSE s
    IN  [svc |-> s1,
         path |-> IF s1.file_name = NoneT
                     THEN NoneT
                     ELSE JoinPath(InputDirectory, s1.file_name)]

\* What open(file_path, 'wb') and fd.write(data) can do.
IoOutcomes == {"ok", "open_fails", "write_fails"}

\* set_file: the name is stored before the file is opened; a failed open leaves
\* the directory as it was, a failed write leaves the opened (truncated) file.
set_file(s, d, name, io) ==
    LET fp == file_path(s, name)
    IN  [svc |-> fp.svc,
         disk |-> IF io = "open_fails" THEN d ELSE d \cup {fp.path},
         exc |-> IF io = "ok" THEN NoExc
                 ELSE Raise("OSError", <<"[Errno]">>, "set_file")]

\* `raise PyFlexInvalidParameter(...)` names a class the module never imports
\* (it imports the `exceptions` module only): evaluating the name raises NameError.
set_verbosity(s, value) ==
    IF 0 <= value /\ value <= 3
        THEN [svc |-> [s EXCEPT !.verbosity = value], exc |-> NoExc]
        ELSE [svc |-> s,
              exc |-> Raise("NameError",
                            <<"name 'PyFlexInvalidParameter' is not defined">>,
                            "set_verbosity")]

set_force(s) == [svc |-> [s EXCEPT !.force = TRUE], exc |-> NoExc]

\* Mutant of unset_force: the flag is left as it is.
unset_force_keeps(s) == [svc |-> s, exc |-> NoExc]

unset_force(s) == [svc |-> [s EXCEPT !.force = FALSE], exc |-> NoExc]

\* _build_opts with only some of its three file checks, for the mutants below.
build_opts_with(s, d, checks) ==
    LET fp == file_path(s, NoneT)
        s1 == fp.svc
        none(e) == [svc |-> s1, exc |-> e, opts |-> NoOpts]
    IN  IF s1.action = NoAction
            THEN none(Raise("PyFlexInvalidParameter",
                            <<"Invalid value for ACTION.">>, "_build_opts"))
        ELSE IF "forbid" \in checks /\ s1.action \in {"ERASE", "PROBE"}
                /\ s1.file_name # NoneT
            THEN none(Raise("PyFlexInvalidParameter",
                            <<"Invalid Parameter. Action=">> \o EnumStr(s1.action)
                                \o <<" cannot use an input file.">>, "_build_opts"))
        ELSE IF "require" \in checks /\ s1.action \in {"WRITE", "VERIFY"}
                /\ s1.file_name = NoneT
            THEN none(Raise("PyFlexInvalidParameter",
                            <<"Invalid Parameter. Action=">> \o EnumStr(s1.action)
                                \o <<" requires an input file.">>, "_build_opts"))
        ELSE IF "exists" \in checks /\ s1.action \in {"WRITE", "VERIFY"}
                /\ fp.path \notin d
            THEN none(Raise("PyFlexExecutionError",
                            <<"File expected but does not exist. Cannot continue.">>,
                            "_build_opts"))
        ELSE [svc |-> s1, exc |-> NoExc,
              opts |-> FlashROMOpts(s1.action, s1.force, s1.verbosity,
                                    s1.programmer, fp.path)]

\* Mutant of _build_opts: Write and Verify no longer require an input file.
build_opts_file_optional(s, d) == build_opts_with(s, d, {"forbid", "exists"})

\* Mutant of _build_opts: Erase and Probe no longer refuse an input file.
build_opts_file_allowed(s, d) == build_opts_with(s, d, {"require", "exists"})

\* Mutant of _build_opts: the input file is no longer looked up on disk.
build_opts_file_unchecked(s, d) == build_opts_with(s, d, {"forbid", "require"})

build_opts(s, d) ==
    LET fp == file_path(s, NoneT)
        s1 == fp.svc
        none(e) == [svc |-> s1, exc |-> e, opts |-> NoOpts]
    IN  IF s1.action = NoAction
            THEN none(Raise("PyFlexInvalidParameter",
                            <<"Invalid value for ACTION.">>, "_build_opts"))
        ELSE IF s1.action \in {"ERASE", "PROBE"} /\ s1.file_name # NoneT
            THEN none(Raise("PyFlexInvalidParameter",
                            <<"Invalid Parameter. Action=">> \o EnumStr(s1.action)
                                \o <<" cannot use an input file.">>, "_build_opts"))
        ELSE IF s1.action \in {"WRITE", "VERIFY"} /\ s1.file_name = NoneT
            THEN none(Raise("PyFlexInvalidParameter",
                            <<"Invalid Parameter. Action=">> \o EnumStr(s1.action)
                                \o <<" requires an input file.">>, "_build_opts"))
        ELSE IF s1.action \in {"WRITE", "VERIFY"} /\ fp.path \notin d
            THEN none(Raise("PyFlexExecutionError",
                            <<"File expected but does not exist. Cannot continue.">>,
                            "_build_opts"))
        ELSE [svc |-> s1, exc |-> NoExc,
              opts |-> FlashROMOpts(s1.action, s1.force, s1.verbosity,
                                    s1.programmer, fp.path)]

(* -------------------- FlashROMShellCommandAdapter ---------------------- *)

OutputPath == <<"webui/outputs">>

\* A subprocess.CompletedProcess, or subprocess.run raising OSError (raises).
CompletedProcess(returncode, stdout, stderr) ==
    [raises |-> FALSE, returncode |-> returncode, stdout |-> stdout, stderr |-> stderr]

ProcessFails == [raises |-> TRUE, returncode |-> 0, stdout |-> <<>>, stderr |-> <<>>]

\* Mutant of _prepair_response: the streams are not stripped.
prepair_response_unstripped(result) ==
    IF ~DecodeOk(result.stdout) \/ ~DecodeOk(result.stderr)
        THEN [exc |-> Raise("UnicodeDecodeError",
                            <<"'utf-8' codec can't decode byte">>, "_prepair_response"),
              msg |-> <<>>]
    ELSE LET msg == decode(result.stdout)
             err == decode(result.stderr)
         IN  [exc |-> NoExc,
              msg |-> IF msg # <<>> /\ err # <<>>
                          THEN <<"STDOUT:\n">> \o msg \o <<"\n\nSTDERR:\n">> \o err
                      ELSE IF err # <<>> THEN err
                      ELSE IF msg # <<>> THEN msg
                      ELSE <<"Application exited without details - CODE: ">>
                               \o IntToStr(result.returncode)]

\* _prepair_response: decoding comes first and raises on bytes that are not UTF-8.
prepair_response(result) ==
    IF ~DecodeOk(result.stdout) \/ ~DecodeOk(result.stderr)
        THEN [exc |-> Raise("UnicodeDecodeError",
                            <<"'utf-8' codec can't decode byte">>, "_prepair_response"),
              msg |-> <<>>]
    ELSE LET msg == strip(decode(result.stdout))
             err == strip(decode(result.stderr))
         IN  [exc |-> NoExc,
              msg |-> IF msg # <<>> /\ err # <<>>
                          THEN <<"STDOUT:\n">> \o msg \o <<"\n\nSTDERR:\n">> \o err
                      ELSE IF err # <<>> THEN err
                      ELSE IF msg # <<>> THEN msg
                      ELSE <<"Application exited without details - CODE: ">>
                               \o IntToStr(result.returncode)]

\* _execute_subprocess: subprocess.run refuses an argument that is None (TypeError)
\* before it starts the tool; otherwise the tool runs, or starting it fails.
execute_subprocess(command, proc) ==
    IF \E i \in 1..Len(command) : command[i] = NoneT
        THEN [exc |-> Raise("TypeError", <<"expected str, bytes or os.PathLike object">>,
                            "subprocess.run"),
              result |-> ProcessFails]
    ELSE IF proc.raises
        THEN [exc |-> Raise("OSError", <<"[Errno]">>, "subprocess.run"),
              result |-> ProcessFails]
    ELSE [exc |-> NoExc, result |-> proc]

\* Mutant of _make_command: the verbosity token is appended before "-f", and
\* the verbosity is not capped.
make_command_verbosity_first(opts, uuid) ==
    LET p == <<<<"-p">>, opts.programmer>>
        flags ==
            CASE opts.action = "PROBE" -> p
              [] opts.action = "WRITE" -> p \o <<<<"-w">>, opts.input_path>>
              [] opts.action = "ERASE" -> p \o <<<<"-E">>>>
              [] opts.action = "VERIFY" -> p \o <<<<"-v">>, opts.input_path>>
              [] opts.action = "READ" ->
                    p \o <<<<"-r">>, <<"\"">> \o JoinPath(OutputPath, uuid) \o <<"\"">>>>
              [] OTHER -> <<>>
        force == IF opts.force THEN <<<<"-f">>>> ELSE <<>>
        verbosity == IF opts.verbosity > 0
                        THEN <<<<"-">> \o repeat(<<"V">>, opts.verbosity)>>
                        ELSE <<>>
    IN  [command |-> <<<<"flashrom">>>> \o flags \o verbosity \o force,
         file_name |-> IF opts.action = "READ" THEN uuid ELSE NoneT]

\* _make_command: the argument list (a list of str) and the generated file name.
make_command(opts, uuid) ==
    LET p == <<<<"-p">>, opts.programmer>>
        flags ==
            CASE opts.action = "PROBE" -> p
              [] opts.action = "WRITE" -> p \o <<<<"-w">>, opts.input_path>>
              [] opts.action = "ERASE" -> p \o <<<<"-E">>>>
              [] opts.action = "VERIFY" -> p \o <<<<"-v">>, opts.input_path>>
              [] opts.action = "READ" ->
                    p \o <<<<"-r">>, <<"\"">> \o JoinPath(OutputPath, uuid) \o <<"\"">>>>
              [] OTHER -> <<>>
        force == IF opts.force THEN <<<<"-f">>>> ELSE <<>>
        verbosity == IF opts.verbosity > 0
                        THEN <<<<"-">> \o repeat(<<"V">>, min(3, opts.verbosity))>>
                        ELSE <<>>
    IN  [command |-> <<<<"flashrom">>>> \o flags \o force \o verbosity,
         file_name |-> IF opts.action = "READ" THEN uuid ELSE NoneT]

\* FlashROMShellCommandAdapter.run
run(opts, uuid, proc) ==
    LET mc == make_command(opts, uuid)
        sp == execute_subprocess(mc.command, proc)
        pr == prepair_response(sp.result)
        out(e, r) == [exc |-> e, result |-> r, command |-> mc.command,
                      file_name |-> mc.file_name, proc |-> sp.result]
    IN  IF sp.exc # NoExc THEN out(sp.exc, NoResult)
        ELSE IF pr.exc # NoExc THEN out(pr.exc, NoResult)
        ELSE IF sp.result.returncode # 0
            THEN out(Raise("PyFlexExecutionError", pr.msg, "run"), NoResult)
        ELSE out(NoExc, FlashROMExecResult(pr.msg, mc.file_name))

\* Mutant of execute: the first handler is gone, so every exception, a
\* PyFlexException too, is translated.
execute_translates_all(s, d, uuid, proc) ==
    LET b == build_opts(s, d)
        ran == b.exc = NoExc
        a == run(b.opts, uuid, proc)
        inner == IF ran THEN a.exc ELSE b.exc
    IN  [svc |-> b.svc,
         inner |-> inner,
         exc |-> IF inner = NoExc THEN NoExc
                 ELSE Raise("PyFlexExecutionError",
                            <<"Unable to execute FlashROM utility.">>, "execute"),
         result |-> IF ran THEN a.result ELSE NoResult,
         runs |-> IF ran THEN 1 ELSE 0,
         opts |-> b.opts,
         command |-> IF ran THEN a.command ELSE <<>>,
         proc |-> IF ran THEN a.proc ELSE ProcessFails]

\* Mutant of execute: the input file name is forgotten once execute is over.
execute_forgets_file(s, d, uuid, proc) ==
    LET b == build_opts(s, d)
        ran == b.exc = NoExc
        a == run(b.opts, uuid, proc)
        inner == IF ran THEN a.exc ELSE b.exc
    IN  [svc |-> [b.svc EXCEPT !.file_name = NoneT],
         inner |-> inner,
         exc |-> IF inner = NoExc THEN NoExc
                 ELSE IF IsPyFlexException(inner.kind) THEN inner
                 ELSE Raise("PyFlexExecutionError",
                            <<"Unable to execute FlashROM utility.">>, "execute"),
         result |-> IF ran THEN a.result ELSE NoResult,
         runs |-> IF ran THEN 1 ELSE 0,
         opts |-> b.opts,
         command |-> IF ran THEN a.command ELSE <<>>,
         proc |-> IF ran THEN a.proc ELSE ProcessFails]

\* FlashROMService.execute with the shell command adapter as its adapter
execute(s, d, uuid, proc) ==
    LET b == build_opts(s, d)
        ran == b.exc = NoExc
        a == run(b.opts, uuid, proc)
        inner == IF ran THEN a.exc ELSE b.exc
    IN  [svc |-> b.svc,
         inner |-> inner,
         exc |-> IF inner = NoExc THEN NoExc
                 ELSE IF IsPyFlexException(inner.kind) THEN inner
                 ELSE Raise("PyFlexExecutionError",
                            <<"Unable to execute FlashROM utility.">>, "execute"),
         result |-> IF ran THEN a.result ELSE NoResult,
         runs |-> IF ran THEN 1 ELSE 0,
         opts |-> b.opts,
         command |-> IF ran THEN a.command ELSE <<>>,
         proc |-> IF ran THEN a.proc ELSE ProcessFails]

(* ------------------------ the calls a client makes --------------------- *)

\* A response of the endpoint: a status with a text body (an error string) or
\* with a JSON body {msg, out}; status 0 when the handler returned nothing.
Response(status, text, msg, out) ==
    [status |-> status, text |-> text, msg |-> msg, out |-> out]

NoResponse == Response(0, <<>>, <<>>, NoneT)

\* What execute leaves to observe when it was not the call made.
NoExecute ==
    [inner |-> NoExc, result |-> NoResult, runs |-> 0, opts |-> NoOpts,
     command |-> <<>>, proc |-> ProcessFails]

\* The last call: the method, its arguments, the service before it, the exception
\* that escaped it (NoExc when it returned) and, for execute and run, what the
\* adapter was handed and what came back.
Call(op, arg, pre, exc, x) ==
    [op |-> op, arg |-> arg, pre |-> pre, exc |-> exc, inner |-> x.inner,
     result |-> x.result, runs |-> x.runs, opts |-> x.opts, command |-> x.command,
     proc |-> x.proc, response |-> NoResponse]

\* The history of the calls made on the service, kept apart from its fields: the
\* argument of the last set_action that returned, of the last set_programmer, of
\* the last set_verbosity that returned, whether set_force was the later of
\* set_force / unset_force, the file name the last set_file generated, and, when
\* the call before the last one was an execute, the options it built and the
\* exception its validation raised.
NoHistory ==
    [action |-> NoneT, programmer |-> NoneT, force |-> FALSE, verbosity |-> 0,
     file |-> NoneT, prev |-> [op |-> "none", opts |-> NoOpts, verr |-> NoExc]]

History(h, c, op, arg, exc) ==
    LET h1 == [h EXCEPT !.prev =
                  IF c.op = "execute"
                      THEN [op |-> c.op, opts |-> c.opts,
                            verr |-> IF c.inner.site = "_build_opts"
                                        THEN c.inner ELSE NoExc]
                      ELSE NoHistory.prev]
    IN  CASE op = "set_action" /\ exc = NoExc -> [h1 EXCEPT !.action = arg]
          [] op = "set_programmer" -> [h1 EXCEPT !.programmer = arg]
          [] op = "set_verbosity" /\ exc = NoExc -> [h1 EXCEPT !.verbosity = arg[1]]
          [] op = "set_force" -> [h1 EXCEPT !.force = TRUE]
          [] op = "unset_force" -> [h1 EXCEPT !.force = FALSE]
          [] op = "set_file" -> [h1 EXCEPT !.file = arg]
          [] OTHER -> h1

Programmers == {<<"dummy:emulate=M25P10.RES">>, <<"ch341a_spi">>}

ActionInputs == DOMAIN ActionMap \cup {<<"bogus">>, <<"Probe">>, NoneT}

VerbosityInputs == -1..MaxVerbosity

ReturnCodes == {0, 1, -11}

\* The outcomes of the external tool the service is run against.
ServiceProcs ==
    {CompletedProcess(0, <<97>>, <<>>), CompletedProcess(1, <<>>, <<97>>),
     CompletedProcess(1, <<255>>, <<>>), ProcessFails}

Init ==
    /\ svc = InitService
    /\ disk = {}
    /\ call = Call("init", <<>>, InitService, NoExc, NoExecute)
    /\ hist = NoHistory

SetAction ==
    \E action \in ActionInputs :
        LET r == set_action(svc, action)
        IN  /\ svc' = r.svc
            /\ call' = Call("set_action", action, svc, r.exc, NoExecute)
            /\ hist' = History(hist, call, "set_action", action, r.exc)
            /\ UNCHANGED disk

SetProgrammer ==
    \E programmer \in {<<"dummy:emulate=M25P10.RES">>, NoneT} :
        LET r == set_programmer(svc, programmer)
        IN  /\ svc' = r.svc
            /\ call' = Call("set_programmer", programmer, svc, r.exc, NoExecute)
            /\ hist' = History(hist, call, "set_programmer", programmer, r.exc)
            /\ UNCHANGED disk

SetFile ==
    \E name \in UuidNames, io \in IoOutcomes :
        LET r == set_file(svc, disk, name, io)
        IN  /\ svc' = r.svc
            /\ disk' = r.disk
            /\ call' = Call("set_file", name, svc, r.exc, NoExecute)
            /\ hist' = History(hist, call, "set_file", name, r.exc)

SetVerbosity ==
    \E value \in VerbosityInputs :
        LET r == set_verbosity(svc, value)
        IN  /\ svc' = r.svc
            /\ call' = Call("set_verbosity", <<value>>, svc, r.exc, NoExecute)
            /\ hist' = History(hist, call, "set_verbosity", <<value>>, r.exc)
            /\ UNCHANGED disk

SetForce ==
    LET r == set_force(svc)
    IN  /\ svc' = r.svc
        /\ call' = Call("set_force", <<>>, svc, r.exc, NoExecute)
        /\ hist' = History(hist, call, "set_force", <<>>, r.exc)
        /\ UNCHANGED disk

UnsetForce ==
    LET r == unset_force(svc)
    IN  /\ svc' = r.svc
        /\ call' = Call("unset_force", <<>>, svc, r.exc, NoExecute)
        /\ hist' = History(hist, call, "unset_force", <<>>, r.exc)
        /\ UNCHANGED disk

Execute ==
    \E uuid \in UuidNames, proc \in ServiceProcs :
        LET r == execute(svc, disk, uuid, proc)
        IN  /\ svc' = r.svc
            /\ call' = Call("execute", <<>>, svc, r.exc, r)
            /\ hist' = History(hist, call, "execute", <<>>, r.exc)
            /\ UNCHANGED disk

\* The environment: a file of the input directory is removed.
RemoveFile ==
    \E f \in disk :
        /\ disk' = disk \ {f}
        /\ call' = Call("remove_file", f, svc, NoExc, NoExecute)
        /\ hist' = History(hist, call, "remove_file", f, NoExc)
        /\ UNCHANGED svc

Next ==
    \/ SetAction
    \/ SetProgrammer
    \/ SetFile
    \/ SetVerbosity
    \/ SetForce
    \/ UnsetForce
    \/ Execute
    \/ RemoveFile

Spec == Init /\ [][Next]_vars

(* ------------------ the adapter called on its own ---------------------- *)

AdapterOpts ==
    {FlashROMOpts(a, f, v, p, i) :
        a \in FlashROMActionEnum, f \in BOOLEAN, v \in 0..MaxVerbosity,
        p \in Programmers,
        i \in {NoneT} \cup {JoinPath(InputDirectory, n) : n \in UuidNames}}

AdapterProcs ==
    {CompletedProcess(rc, out, err) :
        rc \in ReturnCodes, out \in BytesUpTo(MaxOutLen), err \in BytesUpTo(MaxErrLen)}
    \cup {ProcessFails}

\* The adapter keeps nothing between runs: a behaviour is one call of run.
AdapterRun ==
    /\ call.op = "init"
    /\ \E opts \in AdapterOpts, uuid \in UuidNames, proc \in AdapterProcs :
        LET r == run(opts, uuid, proc)
        IN  /\ call' = Call("run", <<>>, svc, r.exc,
                            [inner |-> r.exc, result |-> r.result, runs |-> 1,
                             opts |-> opts, command |-> r.command, proc |-> r.proc])
            /\ UNCHANGED <<svc, disk, hist>>

NextAdapter == AdapterRun

AdapterSpec == Init /\ [][NextAdapter]_vars

(* --------------------------- /api/flashrom ----------------------------- *)

\* file_to_url
file_to_url(path) ==
    IF path # NoneT /\ path # <<>> THEN <<"/outputs/">> \o path ELSE NoneT

\* The form of a POST: a missing `action` or `programmer` field and a missing
\* upload read as None; `force` and `very-very-verbose` count when present.
Forms ==
    [action : ActionInputs,
     programmer : {<<"dummy:emulate=M25P10.RES">>, NoneT},
     file : {[uploaded |-> FALSE, data |-> <<>>], [uploaded |-> TRUE, data |-> <<>>],
             [uploaded |-> TRUE, data |-> <<97>>]},
     force : BOOLEAN,
     vvv : BOOLEAN]

\* flashrom(), lines 34-51: a fresh service, then the setters, outside any try:
\* the first exception one of them raises leaves the handler.
flashrom_setters(form, d, name, io) ==
    LET s0 == InitService
        r1 == set_action(s0, form.action)
        r2 == set_programmer(r1.svc, form.programmer)
        \* file_data = file.read() if file else None; `if file_data:`
        upload == form.file.uploaded /\ form.file.data # <<>>
        r3 == IF upload THEN set_file(r2.svc, d, name, io)
                        ELSE [svc |-> r2.svc, disk |-> d, exc |-> NoExc]
        r4 == IF form.force THEN set_force(r3.svc) ELSE [svc |-> r3.svc, exc |-> NoExc]
        r5 == IF form.vvv THEN set_verbosity(r4.svc, 3) ELSE [svc |-> r4.svc, exc |-> NoExc]
    IN  IF r1.exc # NoExc THEN [svc |-> r1.svc, disk |-> d, exc |-> r1.exc]
        ELSE IF r2.exc # NoExc THEN [svc |-> r2.svc, disk |-> d, exc |-> r2.exc]
        ELSE IF r3.exc # NoExc THEN [svc |-> r3.svc, disk |-> r3.disk, exc |-> r3.exc]
        ELSE IF r4.exc # NoExc THEN [svc |-> r4.svc, disk |-> r3.disk, exc |-> r4.exc]
        ELSE [svc |-> r5.svc, disk |-> r3.disk, exc |-> r5.exc]

\* flashrom(), lines 53-66: what the handler answers to the outcome x of execute.
\* `error` is the exception execute raised, `exc` the one that leaves the handler.
flashrom_respond(x) ==
    [exc |-> IF x.exc # NoExc /\ ~IsPyFlexException(x.exc.kind) THEN x.exc ELSE NoExc,
     error |-> x.exc,
     response |->
         IF x.exc = NoExc
             THEN Response(200, <<>>, x.result.message, file_to_url(x.result.path))
         ELSE IF x.exc.kind = "PyFlexInvalidParameter"
             THEN Response(400, x.exc.msg, <<>>, NoneT)
         ELSE IF IsPyFlexException(x.exc.kind)
             THEN Response(500, x.exc.msg, <<>>, NoneT)
         ELSE NoResponse,
     x |-> x]

\* flashrom(): the whole handler.
flashrom(form, d, name, io, uuid, proc) ==
    CHOOSE r \in
        UNION {IF h.exc # NoExc
                  THEN {[exc |-> h.exc, error |-> h.exc, response |-> NoResponse,
                         x |-> NoExecute, disk |-> h.disk]}
                  ELSE {[exc |-> a.exc, error |-> a.error, response |-> a.response,
                         x |-> a.x, disk |-> h.disk] :
                           a \in {flashrom_respond(x) :
                                     x \in {execute(h.svc, h.disk, uuid, proc)}}} :
               h \in {flashrom_setters(form, d, name, io)}} : TRUE

\* Every request builds a service of its own (services.get_flashrom): a
\* behaviour is one request, made with any earlier uploads in the input directory.
Flashrom ==
    /\ call.op = "init"
    /\ \E form \in Forms, name \in UuidNames, io \in IoOutcomes,
          uuid \in UuidNames, proc \in ServiceProcs :
        \E r \in {flashrom(form, disk, name, io, uuid, proc)} :
            /\ call' = [Call("flashrom", form, svc, r.exc,
                             [inner |-> r.error, result |-> r.x.result,
                              runs |-> r.x.runs, opts |-> r.x.opts,
                              command |-> r.x.command, proc |-> r.x.proc])
                          EXCEPT !.response = r.response]
            /\ disk' = r.disk
            /\ UNCHANGED <<svc, hist>>

NextWeb == Flashrom

WebInit ==
    /\ svc = InitService
    /\ disk \in SUBSET {JoinPath(InputDirectory, n) : n \in UuidNames}
    /\ call = Call("init", <<>>, InitService, NoExc, NoExecute)
    /\ hist = NoHistory

WebSpec == WebInit /\ [][NextWeb]_vars

(* ============================== claims ================================= *)

\* The tokens the global options may add to a command.
GlobalTokens == {<<"-f">>, <<"-", "V">>, <<"-", "V", "V">>, <<"-", "V", "V", "V">>}

\* The tokens each action puts after "flashrom", "-p", <programmer>, with the
\* generated output file at the given path.
ActionFlags(opts, read_path) ==
    CASE opts.action = "PROBE" -> <<>>
      [] opts.action = "ERASE" -> <<<<"-E">>>>
      [] opts.action = "WRITE" -> <<<<"-w">>, opts.input_path>>
      [] opts.action = "VERIFY" -> <<<<"-v">>, opts.input_path>>
      [] OTHER -> <<<<"-r">>, read_path>>

\* C1 (original statement): for every action and programmer, the command handed to
\* the subprocess is "flashrom", "-p", <programmer>, then exactly the action's flags
\* (nothing / -E / -w <input_path> / -v <input_path> / -r <path of the generated file
\* inside the output directory>), then only the global force and verbosity tokens.
C1_FixedFlags ==
    call.op = "run" =>
        \E n \in UuidNames :
            LET want == <<<<"flashrom">>, <<"-p">>, call.opts.programmer>>
                            \o ActionFlags(call.opts, JoinPath(OutputPath, n))
                cmd == call.command
            IN  /\ Len(cmd) >= Len(want)
                /\ SubSeq(cmd, 1, Len(want)) = want
                /\ \A i \in (Len(want) + 1)..Len(cmd) : cmd[i] \in GlobalTokens

\* C2: execute with action Write or Verify and no input file set raises
\* PyFlexInvalidParameter and never invokes the adapter's run, whatever the
\* programmer, force and verbosity are.
C2_WriteVerifyNeedFile ==
    (call.op = "execute" /\ call.pre.action \in {"WRITE", "VERIFY"}
        /\ call.pre.file_name = NoneT)
    => (call.exc.kind = "PyFlexInvalidParameter" /\ call.runs = 0
        /\ call.result = NoResult)

C2_Witness ==
    /\ call.op = "execute"
    /\ call.pre.action = "VERIFY"
    /\ call.pre.file_name = NoneT
    /\ call.pre.force
    /\ call.pre.verbosity = 3
    /\ call.pre.programmer # NoneT
    /\ call.exc.kind = "PyFlexInvalidParameter"

\* C3: execute with action Erase or Probe and an input file set by set_file raises
\* PyFlexInvalidParameter and never invokes the adapter's run.
C3_EraseProbeForbidFile ==
    (call.op = "execute" /\ call.pre.action \in {"ERASE", "PROBE"}
        /\ call.pre.file_name # NoneT)
    => (call.exc.kind = "PyFlexInvalidParameter" /\ call.runs = 0
        /\ call.result = NoResult)

C3_Witness ==
    /\ call.op = "execute"
    /\ call.pre.action = "PROBE"
    /\ call.pre.file_name \in UuidNames
    /\ JoinPath(InputDirectory, call.pre.file_name) \in disk
    /\ call.exc.kind = "PyFlexInvalidParameter"

\* C4 (original statement): for every subprocess result with a non-zero exit code,
\* run raises PyFlexExecutionError, returns no result, and the error's message
\* contains the (trimmed) standard-output and standard-error text.
C4_NonZeroExitRaises ==
    (call.op = "run" /\ ~call.proc.raises /\ call.proc.returncode # 0)
    => /\ call.exc.kind = "PyFlexExecutionError"
       /\ call.result = NoResult
       /\ Contains(call.exc.msg, strip(decode(call.proc.stdout)))
       /\ Contains(call.exc.msg, strip(decode(call.proc.stderr)))

\* C5 (original statement): for every POST, an invalid-parameter error raised at
\* any step of the handler yields a 400 response carrying the error string, an
\* execution failure a 500 response carrying the error string, and only a
\* successful execute yields the JSON {msg, out} body.
C5_ErrorStatus ==
    call.op = "flashrom" =>
        /\ call.inner.kind = "PyFlexInvalidParameter"
              => call.response = Response(400, call.inner.msg, <<>>, NoneT)
        /\ call.inner.kind = "PyFlexExecutionError"
              => call.response = Response(500, call.inner.msg, <<>>, NoneT)
        /\ call.response.status = 200 => (call.inner = NoExc /\ call.runs = 1)

\* C6 (original statement): execute with action Write or Verify and an input file
\* name set whose file is not on disk raises PyFlexInvalidParameter and never
\* invokes the adapter.
C6_MissingFileIsParameterError ==
    (call.op = "execute" /\ call.pre.action \in {"WRITE", "VERIFY"}
        /\ call.pre.file_name # NoneT
        /\ JoinPath(InputDirectory, call.pre.file_name) \notin disk)
    => (call.exc.kind = "PyFlexInvalidParameter" /\ call.runs = 0)

\* C6 (amended): execute with action Write or Verify and an input file name set
\* whose file is not on disk raises PyFlexExecutionError ("File expected but does
\* not exist. Cannot continue.") and never invokes the adapter.
C6_MissingFileIsExecutionError ==
    (call.op = "execute" /\ call.pre.action \in {"WRITE", "VERIFY"}
        /\ call.pre.file_name # NoneT
        /\ JoinPath(InputDirectory, call.pre.file_name) \notin disk)
    => (/\ call.exc.kind = "PyFlexExecutionError"
        /\ call.exc.msg = <<"File expected but does not exist. Cannot continue.">>
        /\ call.runs = 0
        /\ call.result = NoResult)

C6_Witness ==
    /\ call.op = "execute"
    /\ call.pre.action = "WRITE"
    /\ call.pre.file_name \in UuidNames
    /\ JoinPath(InputDirectory, call.pre.file_name) \notin disk
    /\ call.exc.kind = "PyFlexExecutionError"

\* C7 (original statement): set_verbosity(value) stores value when 0 <= value <= 3;
\* for any other integer it raises PyFlexInvalidParameter and leaves the service
\* as it was.
C7_VerbosityRange ==
    call.op = "set_verbosity" =>
        IF call.arg[1] \in {0, 1, 2, 3}
            THEN call.exc = NoExc /\ svc = [call.pre EXCEPT !.verbosity = call.arg[1]]
            ELSE call.exc.kind = "PyFlexInvalidParameter" /\ svc = call.pre

\* C8: set_action accepts exactly "probe", "erase", "write", "read" and "verify";
\* any other value raises PyFlexInvalidParameter and leaves the stored action
\* unchanged; execute on a service whose action was never set raises
\* PyFlexInvalidParameter without invoking the adapter.
C8_SetAction ==
    /\ call.op = "set_action" =>
          IF call.arg \in {<<"probe">>, <<"erase">>, <<"write">>, <<"read">>, <<"verify">>}
              THEN /\ call.exc = NoExc
                   /\ <<call.arg, svc.action>> \in
                         {<<<<"probe">>, "PROBE">>, <<<<"erase">>, "ERASE">>,
                          <<<<"write">>, "WRITE">>, <<<<"read">>, "READ">>,
                          <<<<"verify">>, "VERIFY">>}
              ELSE /\ call.exc.kind = "PyFlexInvalidParameter"
                   /\ svc.action = call.pre.action
    /\ (call.op = "execute" /\ call.pre.action = NoAction) =>
          (call.exc.kind = "PyFlexInvalidParameter" /\ call.runs = 0
           /\ call.result = NoResult)

C8_Witness ==
    /\ call.op = "set_action"
    /\ call.arg = <<"Probe">>
    /\ call.pre.action = "WRITE"
    /\ call.exc.kind = "PyFlexInvalidParameter"
    /\ svc.action = "WRITE"

\* C9: in the command the adapter builds, force adds exactly one "-f" when
\* opts.force is true and nothing otherwise; verbosity v adds exactly one token
\* "-" followed by v times "V" for v in 1..3 and nothing for v = 0; these tokens
\* come after the action's flags, "-f" before the verbosity token.
C9_GlobalFlags ==
    (call.op = "run" /\ call.opts.verbosity \in 0..3) =>
        LET nflags == CASE call.opts.action = "PROBE" -> 0
                        [] call.opts.action = "ERASE" -> 1
                        [] OTHER -> 2
            cmd == call.command
            f == IF call.opts.force THEN <<<<"-f">>>> ELSE <<>>
            v == CASE call.opts.verbosity = 0 -> <<>>
                   [] call.opts.verbosity = 1 -> <<<<"-", "V">>>>
                   [] call.opts.verbosity = 2 -> <<<<"-", "V", "V">>>>
                   [] OTHER -> <<<<"-", "V", "V", "V">>>>
        IN  /\ Len(cmd) >= 3 + nflags
            /\ SubSeq(cmd, 3 + nflags + 1, Len(cmd)) = f \o v
            /\ \A i \in 1..(3 + nflags) : cmd[i] \notin GlobalTokens

C9_Witness ==
    /\ call.op = "run"
    /\ call.opts.action = "WRITE"
    /\ call.opts.force
    /\ call.opts.verbosity = 2
    /\ call.command[Len(call.command)] = <<"-", "V", "V">>
    /\ call.command[Len(call.command) - 1] = <<"-f">>

\* C10: execute re-raises a PyFlexException raised by validation or by the
\* adapter's run as the very same exception object, translates any other
\* exception into PyFlexExecutionError("Unable to execute FlashROM utility."),
\* never lets another exception escape and never returns a result after an error.
C10_ExecutePropagates ==
    call.op = "execute" =>
        /\ call.inner.kind \in {"PyFlexInvalidParameter", "PyFlexExecutionError"}
              => call.exc = call.inner
        /\ call.inner.kind \notin {"none", "PyFlexInvalidParameter", "PyFlexExecutionError"}
              => call.exc = [kind |-> "PyFlexExecutionError",
                             msg |-> <<"Unable to execute FlashROM utility.">>,
                             site |-> "execute"]
        /\ call.exc.kind \in {"none", "PyFlexInvalidParameter", "PyFlexExecutionError"}
        /\ call.inner # NoExc => (call.exc # NoExc /\ call.result = NoResult)
        /\ call.inner = NoExc => (call.exc = NoExc /\ call.result # NoResult)

C10_Witness ==
    /\ call.op = "execute"
    /\ call.inner.kind = "PyFlexExecutionError"
    /\ call.inner.site = "run"
    /\ call.exc = call.inner

C10_WitnessTranslated ==
    /\ call.op = "execute"
    /\ call.inner.kind = "UnicodeDecodeError"
    /\ call.exc.site = "execute"

\* t is s without its leading and trailing whitespace.
IsTrimOf(t, s) ==
    \E i \in 0..Len(s) : \E j \in i..Len(s) :
        /\ t = SubSeq(s, i + 1, j)
        /\ \A k \in 1..i : s[k] \in {" ", "\n"}
        /\ \A k \in (j + 1)..Len(s) : s[k] \in {" ", "\n"}
        /\ t # <<>> => (t[1] \notin {" ", "\n"} /\ t[Len(t)] \notin {" ", "\n"})

\* C11: whenever run makes a message from a subprocess result (it returns a result,
\* exit code 0, or raises its PyFlexExecutionError, exit code not 0), the message
\* is, with out and err the trimmed streams: "STDOUT:\n<out>\n\nSTDERR:\n<err>" when
\* both are non-empty, err alone when only err is, out alone when only out is, and
\* "Application exited without details - CODE: <returncode>" when both are empty.
C11_Message ==
    (call.op = "run"
        /\ (call.result # NoResult \/ (call.exc.kind = "PyFlexExecutionError"
                                          /\ call.exc.site = "run")))
    => \E out \in BytesUpTo(MaxOutLen), err \in BytesUpTo(MaxErrLen) :
          LET o == decode(out)
              e == decode(err)
              code == CASE call.proc.returncode = 0 -> <<"0">>
                        [] call.proc.returncode = 1 -> <<"1">>
                        [] OTHER -> <<"-", "1", "1">>
              m == IF call.proc.returncode = 0 THEN call.result.message
                                               ELSE call.exc.msg
          IN  /\ ~call.proc.raises
              /\ IsTrimOf(o, decode(call.proc.stdout))
              /\ IsTrimOf(e, decode(call.proc.stderr))
              /\ (call.proc.returncode = 0) = (call.result # NoResult)
              /\ (call.proc.returncode = 0) = (call.exc = NoExc)
              /\ m = (IF o # <<>> /\ e # <<>>
                         THEN <<"STDOUT:\n">> \o o \o <<"\n\nSTDERR:\n">> \o e
                      ELSE IF e # <<>> THEN e
                      ELSE IF o # <<>> THEN o
                      ELSE <<"Application exited without details - CODE: ">> \o code)

C11_Witness ==
    /\ call.op = "run"
    /\ call.proc.returncode = 1
    /\ call.proc.stdout = <<32, 97>>
    /\ call.proc.stderr = <<97>>
    /\ call.exc.msg = <<"STDOUT:\n", "a", "\n\nSTDERR:\n", "a">>

C13_ReadPath ==
    (call.op = "flashrom" /\ call.response.status = 200)
    => /\ (call.result.path # NoneT) = (call.opts.action = "READ")
       /\ call.opts.action = "READ" =>
             /\ call.command[4] = <<"-r">>
             /\ call.command[5] = <<"webui/outputs", "/">> \o call.result.path
       /\ call.response.out = (IF call.result.path # NoneT
                                  THEN <<"/outputs/">> \o call.result.path
                                  ELSE NoneT)

\* C14: execute leaves the service's action, programmer, force, verbosity and
\* input file name as they were, whether it returns or raises; of two executes
\* in a row, with no other call between them, the second reaches the validation
\* outcome of the first and, when validation passes, hands the adapter equal
\* options.
C14_ExecuteFrame ==
    call.op = "execute" =>
        /\ svc = call.pre
        /\ hist.prev.op = "execute" =>
              /\ (IF call.inner.site = "_build_opts" THEN call.inner ELSE NoExc)
                     = hist.prev.verr
              /\ (call.runs = 1) = (hist.prev.verr = NoExc)
              /\ call.opts = hist.prev.opts

C14_Witness ==
    /\ call.op = "execute"
    /\ hist.prev.op = "execute"
    /\ call.runs = 1
    /\ call.opts.action = "WRITE"
    /\ call.opts = hist.prev.opts
    /\ svc.file_name \in UuidNames

====
